---- MODULE Spec2Model ----
(***************************************************************************)
(* Model of src/server.js: an express service with one shared MongoClient, *)
(* the module-level flag isConnected, and the handlers of /health,         *)
(* /api/status, POST /api/qrcodes, GET /api/qrcodes, GET /api/qrcodes/:id. *)
(*                                                                         *)
(* Node runs each handler on one thread; a handler runs without            *)
(* interruption from one await to the next, so every action below is one   *)
(* such segment.  The awaits are client.connect(), database.command(ping), *)
(* connectToMongoDB(), insertOne, find().toArray() and findOne.            *)
(*                                                                         *)
(* The document store is outside the repository.  It is modelled as a      *)
(* sequence of documents plus the flag `reachable`: an operation that      *)
(* completes while the store is reachable succeeds and takes effect        *)
(* atomically, one that completes while it is unreachable rejects with an  *)
(* I/O error and has no effect.                                            *)
(***************************************************************************)
EXTENDS Integers, Sequences, FiniteSets, TLC

\* Bounds of the model.
NumReqs == 2        \* requests in flight at once
MaxInserts == 2     \* insertOne calls issued in one behaviour
IdLen == 2          \* hex digits of an ObjectId (24 in the driver)

Reqs == 1..NumReqs
Startup == 0                     \* the app.listen callback
Callers == {Startup} \cup Reqs   \* who can be inside connectToMongoDB

Undefined == "undefined"
ContactInfos == {Undefined, "alice", "bob"}
QrImages == {Undefined, "", "img"}

VARIABLES
    isConnected,   \* line 41
    reachable,     \* the store answers the driver at this instant
    attempt,       \* per caller: position inside connectToMongoDB
    validated,     \* history: some attempt finished connect and ping
    qrcodes,       \* the collection primegate.qrcodes, in natural order
    nextId,        \* the driver's ObjectId counter
    now,           \* the wall clock: the number of instants read so far
    req,           \* per slot: the handler invocation occupying it
    out,           \* the response written by the last step, if any
    acked          \* history: the 201 responses sent so far

vars == <<isConnected, reachable, attempt, validated, qrcodes, nextId, now,
          req, out, acked>>

----------------------------------------------------------------------------
(* ObjectId: IdLen hex digits; the constructor accepts either case, the    *)
(* JSON form is lower case.                                                *)

HexValue(ch) ==
    CASE ch = "a" -> 10
      [] ch = "A" -> 10
      [] ch = "b" -> 11
      [] ch = "B" -> 11
      [] OTHER -> -1

HexChar(n) == IF n = 10 THEN "a" ELSE "b"

\* new ObjectId(id) throws unless id is IdLen hex digits
isValid(id) == Len(id) = IdLen /\ \A i \in 1..Len(id) : HexValue(id[i]) >= 0

ObjectId(id) == [i \in 1..IdLen |-> HexValue(id[i])]

toHexString(oid) == [i \in 1..Len(oid) |-> HexChar(oid[i])]

\* the n-th identifier the driver generates
NewObjectId(n) == [i \in 1..IdLen |-> 10 + ((n \div (2 ^ (IdLen - i))) % 2)]

UpperFirst(id) == [i \in 1..Len(id) |-> IF i = 1 /\ id[i] = "a" THEN "A"
                                         ELSE IF i = 1 /\ id[i] = "b" THEN "B"
                                         ELSE id[i]]

\* the :id path parameters that are sent: identifiers the store hands out
\* (in lower case and with an upper-case digit), one it never hands out, one
\* with a non-hex digit and one that is too short
ReqIds ==
    {toHexString(NewObjectId(0)),
     UpperFirst(toHexString(NewObjectId(1))),
     toHexString(NewObjectId(2 ^ IdLen - 1)),
     [i \in 1..IdLen |-> "g"],
     [i \in 1..(IdLen - 1) |-> "a"]}

----------------------------------------------------------------------------
(* Requests and responses                                                  *)

Idle ==
    [kind |-> "none", pc |-> "idle",
     contactInfo |-> Undefined, qrCodeImage |-> Undefined, id |-> <<>>,
     createdAt |-> 0, oid |-> <<>>,
     connectCalls |-> 0, storeOps |-> 0,
     found |-> FALSE, recheck |-> FALSE]

NoOut ==
    [kind |-> "none", status |-> 0, body |-> [message |-> ""],
     contactInfo |-> Undefined, qrCodeImage |-> Undefined, id |-> <<>>,
     connectCalls |-> 0, storeOps |-> 0,
     found |-> FALSE, recheck |-> FALSE, opResult |-> "none"]

Fail(msg) == [success |-> FALSE, message |-> msg]

\* res.status(status).json(body) ends the invocation q of slot r
Respond(r, q, status, body, opResult) ==
    /\ out' = [kind |-> q.kind, status |-> status, body |-> body,
               contactInfo |-> q.contactInfo, qrCodeImage |-> q.qrCodeImage,
               id |-> q.id,
               connectCalls |-> q.connectCalls, storeOps |-> q.storeOps,
               found |-> q.found, recheck |-> q.recheck,
               opResult |-> opResult]
    /\ req' = [req EXCEPT ![r] = Idle]

\* !v of JavaScript, on the values a field takes here
Falsy(v) == v = Undefined \/ v = ""

Listening == attempt[Startup] # "init"

----------------------------------------------------------------------------
(* The store driver                                                        *)

\* Mutant of Document: the two payload fields are stored crosswise.
DocumentSwapped(contactInfo, qrCodeImage, createdAt, oid) ==
    [_id |-> oid, contactInfo |-> qrCodeImage, qrCodeImage |-> contactInfo,
     createdAt |-> createdAt]

\* lines 109-113: the document handed to insertOne, with the _id the driver
\* adds to it
Document(contactInfo, qrCodeImage, createdAt, oid) ==
    [_id |-> oid, contactInfo |-> contactInfo, qrCodeImage |-> qrCodeImage,
     createdAt |-> createdAt]

\* Mutant of insertOne: a write that replaces the newest document.
insertOneReplacing(coll, doc) ==
    IF coll = <<>> THEN <<doc>> ELSE [coll EXCEPT ![Len(coll)] = doc]

insertOne(coll, doc) == Append(coll, doc)

\* find({}).toArray(): every document, in an order the store chooses
find(coll) ==
    {[i \in 1..Len(coll) |-> coll[p[i]]] : p \in Permutations(1..Len(coll))}

\* Mutant of findOne: the filter is ignored.
findOneAny(coll, oid) == IF coll = <<>> THEN <<>> ELSE <<coll[1]>>

\* findOne({_id: oid}): the first matching document, or nothing (null)
findOne(coll, oid) ==
    LET hits == {i \in 1..Len(coll) : coll[i]._id = oid} IN
    IF hits = {} THEN <<>>
    ELSE <<coll[CHOOSE i \in hits : \A j \in hits : i <= j]>>

\* Mutant of sanitize: the document is passed through whole.
sanitizeNothing(code) == code

\* line 149: the projection applied to each document of the listing
sanitize(code) ==
    [_id |-> code._id, contactInfo |-> code.contactInfo,
     createdAt |-> code.createdAt]

\* res.json of a document: the ObjectId becomes its hex string
toJSON(doc) == [doc EXCEPT !._id = toHexString(@)]

----------------------------------------------------------------------------
Init ==
    /\ isConnected = FALSE
    /\ reachable \in BOOLEAN
    /\ attempt = [c \in Callers |-> IF c = Startup THEN "init" ELSE "none"]
    /\ validated = FALSE
    /\ qrcodes = <<>>
    /\ nextId = 0
    /\ now = 0
    /\ req = [r \in Reqs |-> Idle]
    /\ out = NoOut
    /\ acked = {}

(* The store goes away and comes back.                                     *)
Outage ==
    /\ reachable
    /\ reachable' = FALSE
    /\ out' = NoOut
    /\ UNCHANGED <<isConnected, attempt, validated, qrcodes, nextId, now,
                   req, acked>>

Recover ==
    /\ ~reachable
    /\ reachable' = TRUE
    /\ out' = NoOut
    /\ UNCHANGED <<isConnected, attempt, validated, qrcodes, nextId, now,
                   req, acked>>

----------------------------------------------------------------------------
(* connectToMongoDB, lines 44-71                                           *)

\* the call: runs up to `await client.connect()`
connectToMongoDB(c) == [attempt EXCEPT ![c] = "connect"]

\* app.listen callback, lines 219-222
Listen ==
    /\ attempt[Startup] = "init"
    /\ attempt' = connectToMongoDB(Startup)
    /\ out' = NoOut
    /\ UNCHANGED <<isConnected, reachable, validated, qrcodes, nextId, now,
                   req, acked>>

\* client.connect() settles: lines 46-47, or the catch at 55-56
ClientConnectDone(c) ==
    /\ attempt[c] = "connect"
    /\ IF reachable
       THEN /\ isConnected' = TRUE
            /\ attempt' = [attempt EXCEPT ![c] = "ping"]
       ELSE /\ isConnected' = FALSE
            /\ attempt' = [attempt EXCEPT ![c] = "returned"]
    /\ out' = NoOut
    /\ UNCHANGED <<reachable, validated, qrcodes, nextId, now, req, acked>>

\* database.command({ping: 1}) settles: lines 52-53, or the catch at 55-56
PingDone(c) ==
    /\ attempt[c] = "ping"
    /\ attempt' = [attempt EXCEPT ![c] = "returned"]
    /\ IF reachable
       THEN validated' = TRUE /\ UNCHANGED isConnected
       ELSE isConnected' = FALSE /\ UNCHANGED validated
    /\ out' = NoOut
    /\ UNCHANGED <<reachable, qrcodes, nextId, now, req, acked>>

----------------------------------------------------------------------------
(* GET /health, lines 24-26, and GET /api/status, lines 74-80              *)

Health ==
    /\ Listening
    /\ out' = [NoOut EXCEPT !.kind = "health", !.status = 200,
                            !.body = [status |-> "ok",
                                      message |-> "Server is running"]]
    /\ UNCHANGED <<isConnected, reachable, attempt, validated, qrcodes,
                   nextId, now, req, acked>>

Status ==
    /\ Listening
    /\ out' = [NoOut EXCEPT !.kind = "status", !.status = 200,
                            !.body = [server |-> "running",
                                      mongodb |-> IF isConnected
                                                  THEN "connected"
                                                  ELSE "disconnected",
                                      environment |-> "development"]]
    /\ UNCHANGED <<isConnected, reachable, attempt, validated, qrcodes,
                   nextId, now, req, acked>>

----------------------------------------------------------------------------
(* POST /api/qrcodes, lines 83-127                                         *)

\* lines 88-93: the 500 sent when the flag is still false.  The body was
\* never read; its value is drawn here so that the response names it.
PostUnavailable(r, q) ==
    \E ci \in ContactInfos, qr \in QrImages :
        Respond(r, [q EXCEPT !.contactInfo = ci, !.qrCodeImage = qr], 500,
                Fail("Database connection is not available"), "none")

\* lines 96-113: req.body is read here for the first time, so its value is
\* drawn here; runs up to `await insertOne(...)`
PostBody(r, q) ==
    \E ci \in ContactInfos, qr \in QrImages :
        LET q1 == [q EXCEPT !.contactInfo = ci, !.qrCodeImage = qr] IN
        IF Falsy(ci) \/ Falsy(qr)
        THEN /\ Respond(r, q1, 400,
                   Fail("Missing required fields: contactInfo or qrCodeImage"),
                   "none")
             /\ UNCHANGED <<nextId, now>>
        ELSE /\ nextId < MaxInserts
             /\ req' = [req EXCEPT ![r] =
                           [q1 EXCEPT !.pc = "op",
                                      !.storeOps = @ + 1,
                                      !.createdAt = now + 1,
                                      !.oid = NewObjectId(nextId)]]
             /\ now' = now + 1
             /\ nextId' = nextId + 1
             /\ out' = NoOut

\* the request arrives: lines 85-87, then 96-113 when the flag is set
PostQrcodes(r) ==
    /\ Listening
    /\ req[r].pc = "idle"
    /\ LET q == [Idle EXCEPT !.kind = "post", !.found = isConnected] IN
       IF isConnected
       THEN PostBody(r, q) /\ UNCHANGED attempt
       ELSE /\ req' = [req EXCEPT ![r] = [q EXCEPT !.pc = "awaitConnect",
                                                   !.connectCalls = @ + 1]]
            /\ attempt' = connectToMongoDB(r)
            /\ out' = NoOut
            /\ UNCHANGED <<nextId, now>>
    /\ UNCHANGED <<isConnected, reachable, validated, qrcodes, acked>>

\* Mutant of PostQrcodesResume: a second connect instead of the 500.
PostQrcodesResumeRetry(r) ==
    /\ req[r].kind = "post"
    /\ req[r].pc = "awaitConnect"
    /\ attempt[r] = "returned"
    /\ LET q == [req[r] EXCEPT !.recheck = isConnected] IN
       IF ~isConnected
       THEN /\ req[r].connectCalls < 2
            /\ req' = [req EXCEPT ![r] = [q EXCEPT !.connectCalls = @ + 1]]
            /\ attempt' = connectToMongoDB(r)
            /\ out' = NoOut
            /\ UNCHANGED <<nextId, now>>
       ELSE /\ attempt' = [attempt EXCEPT ![r] = "none"]
            /\ PostBody(r, q)
    /\ UNCHANGED <<isConnected, reachable, validated, qrcodes, acked>>

\* connectToMongoDB() has returned: lines 88-94, then 96-113
PostQrcodesResume(r) ==
    /\ req[r].kind = "post"
    /\ req[r].pc = "awaitConnect"
    /\ attempt[r] = "returned"
    /\ attempt' = [attempt EXCEPT ![r] = "none"]
    /\ LET q == [req[r] EXCEPT !.recheck = isConnected] IN
       IF ~isConnected
       THEN PostUnavailable(r, q) /\ UNCHANGED <<nextId, now>>
       ELSE PostBody(r, q)
    /\ UNCHANGED <<isConnected, reachable, validated, qrcodes, acked>>

\* insertOne settles: lines 115-119, or the catch at 120-126
PostQrcodesDone(r) ==
    /\ req[r].kind = "post"
    /\ req[r].pc = "op"
    /\ IF reachable
       THEN /\ qrcodes' = insertOne(qrcodes,
                              Document(req[r].contactInfo, req[r].qrCodeImage,
                                       req[r].createdAt, req[r].oid))
            /\ Respond(r, req[r], 201,
                       [success |-> TRUE, id |-> toHexString(req[r].oid),
                        message |-> "QR code saved successfully"], "ok")
            /\ acked' = acked \cup {[id |-> toHexString(req[r].oid),
                                     contactInfo |-> req[r].contactInfo,
                                     qrCodeImage |-> req[r].qrCodeImage]}
       ELSE /\ Respond(r, req[r], 500, Fail("Failed to save QR code"),
                       "fault")
            /\ UNCHANGED <<qrcodes, acked>>
    /\ UNCHANGED <<isConnected, reachable, attempt, validated, nextId, now>>

----------------------------------------------------------------------------
(* GET /api/qrcodes, lines 130-163                                         *)

\* lines 135-140
ListUnavailable(r, q) ==
    Respond(r, q, 500, Fail("Database connection is not available"), "none")

\* lines 143-146: runs up to `await find({}).toArray()`
ListBody(r, q) ==
    /\ req' = [req EXCEPT ![r] = [q EXCEPT !.pc = "op", !.storeOps = @ + 1]]
    /\ out' = NoOut

\* the request arrives: lines 132-134, then 143-146 when the flag is set
GetQrcodes(r) ==
    /\ Listening
    /\ req[r].pc = "idle"
    /\ LET q == [Idle EXCEPT !.kind = "list", !.found = isConnected] IN
       IF isConnected
       THEN ListBody(r, q) /\ UNCHANGED attempt
       ELSE /\ req' = [req EXCEPT ![r] = [q EXCEPT !.pc = "awaitConnect",
                                                   !.connectCalls = @ + 1]]
            /\ attempt' = connectToMongoDB(r)
            /\ out' = NoOut
    /\ UNCHANGED <<isConnected, reachable, validated, qrcodes, nextId, now,
                   acked>>

\* connectToMongoDB() has returned: lines 135-141, then 143-146
GetQrcodesResume(r) ==
    /\ req[r].kind = "list"
    /\ req[r].pc = "awaitConnect"
    /\ attempt[r] = "returned"
    /\ attempt' = [attempt EXCEPT ![r] = "none"]
    /\ LET q == [req[r] EXCEPT !.recheck = isConnected] IN
       IF ~isConnected
       THEN ListUnavailable(r, q)
       ELSE ListBody(r, q)
    /\ UNCHANGED <<isConnected, reachable, validated, qrcodes, nextId, now,
                   acked>>

\* find settles: lines 149-155, or the catch at 156-162
GetQrcodesDone(r) ==
    /\ req[r].kind = "list"
    /\ req[r].pc = "op"
    /\ IF reachable
       THEN \E qrCodes \in find(qrcodes) :
                Respond(r, req[r], 200,
                        [i \in 1..Len(qrCodes) |->
                            toJSON(sanitize(qrCodes[i]))], "ok")
       ELSE Respond(r, req[r], 500, Fail("Failed to fetch QR codes"),
                    "fault")
    /\ UNCHANGED <<isConnected, reachable, attempt, validated, qrcodes,
                   nextId, now, acked>>

----------------------------------------------------------------------------
(* GET /api/qrcodes/:id, lines 166-216                                     *)

\* lines 171-176; req.params.id was never read, its value is drawn here
GetByIdUnavailable(r, q) ==
    \E id \in ReqIds :
        Respond(r, [q EXCEPT !.id = id], 500,
                Fail("Database connection is not available"), "none")

\* lines 179-193: req.params.id is read here; runs up to `await findOne`
GetByIdBody(r, q) ==
    \E id \in ReqIds :
        LET q1 == [q EXCEPT !.id = id] IN
        IF id = <<>>
        THEN Respond(r, q1, 400, Fail("Missing required parameter: id"),
                     "none")
        ELSE IF ~isValid(id)
        THEN Respond(r, q1, 400, Fail("Invalid ID format"), "none")
        ELSE /\ req' = [req EXCEPT ![r] = [q1 EXCEPT !.pc = "op",
                                                     !.storeOps = @ + 1]]
             /\ out' = NoOut

\* the request arrives: lines 168-170, then 179-193 when the flag is set
GetQrcodeById(r) ==
    /\ Listening
    /\ req[r].pc = "idle"
    /\ LET q == [Idle EXCEPT !.kind = "get", !.found = isConnected] IN
       IF isConnected
       THEN GetByIdBody(r, q) /\ UNCHANGED attempt
       ELSE /\ req' = [req EXCEPT ![r] = [q EXCEPT !.pc = "awaitConnect",
                                                   !.connectCalls = @ + 1]]
            /\ attempt' = connectToMongoDB(r)
            /\ out' = NoOut
    /\ UNCHANGED <<isConnected, reachable, validated, qrcodes, nextId, now,
                   acked>>

\* connectToMongoDB() has returned: lines 171-177, then 179-193
GetQrcodeByIdResume(r) ==
    /\ req[r].kind = "get"
    /\ req[r].pc = "awaitConnect"
    /\ attempt[r] = "returned"
    /\ attempt' = [attempt EXCEPT ![r] = "none"]
    /\ LET q == [req[r] EXCEPT !.recheck = isConnected] IN
       IF ~isConnected
       THEN GetByIdUnavailable(r, q)
       ELSE GetByIdBody(r, q)
    /\ UNCHANGED <<isConnected, reachable, validated, qrcodes, nextId, now,
                   acked>>

\* findOne settles: lines 195-202, or the inner catch at 203-208, which
\* also receives a rejection of findOne
GetQrcodeByIdDone(r) ==
    /\ req[r].kind = "get"
    /\ req[r].pc = "op"
    /\ IF reachable
       THEN LET qrCode == findOne(qrcodes, ObjectId(req[r].id)) IN
            IF qrCode = <<>>
            THEN Respond(r, req[r], 404, Fail("QR code not found"), "ok")
            ELSE Respond(r, req[r], 200, toJSON(qrCode[1]), "ok")
       ELSE Respond(r, req[r], 400, Fail("Invalid ID format"), "fault")
    /\ UNCHANGED <<isConnected, reachable, attempt, validated, qrcodes,
                   nextId, now, acked>>

----------------------------------------------------------------------------
Next ==
    \/ Outage
    \/ Recover
    \/ Listen
    \/ \E c \in Callers : ClientConnectDone(c)
    \/ \E c \in Callers : PingDone(c)
    \/ Health
    \/ Status
    \/ \E r \in Reqs : PostQrcodes(r)
    \/ \E r \in Reqs : PostQrcodesResume(r)
    \/ \E r \in Reqs : PostQrcodesDone(r)
    \/ \E r \in Reqs : GetQrcodes(r)
    \/ \E r \in Reqs : GetQrcodesResume(r)
    \/ \E r \in Reqs : GetQrcodesDone(r)
    \/ \E r \in Reqs : GetQrcodeById(r)
    \/ \E r \in Reqs : GetQrcodeByIdResume(r)
    \/ \E r \in Reqs : GetQrcodeByIdDone(r)

Spec == Init /\ [][Next]_vars

----------------------------------------------------------------------------
(* Properties                                                              *)

StoreBacked == {"post", "list", "get"}

HasRecord(oid) == \E i \in 1..Len(qrcodes) : qrcodes[i]._id = oid

\* C1: a POST whose body lacks contactInfo or qrCodeImage is answered 400
\* and issues no insert, in every connection state.
C1_MissingFieldIs400 ==
    (out.kind = "post"
        /\ (out.contactInfo = Undefined \/ out.qrCodeImage = Undefined))
    => (out.status = 400 /\ out.storeOps = 0)

\* C2: when insertOne, find or findOne rejects with an I/O error, the
\* response is 500 with success:false.
C2_StoreFaultIs500 ==
    out.opResult = "fault" => (out.status = 500 /\ out.body.success = FALSE)

\* C3: /api/status reports "disconnected" whenever the store is unreachable
\* and "connected" otherwise, also after a connect attempt has succeeded.
C3_StatusTracksStore ==
    (out.kind = "status" /\ validated)
    => (out.body.mongodb = "connected" <=> reachable)

\* C4: GET /api/qrcodes/:id with a malformed id is answered 400, whatever
\* the connection state.
C4_MalformedIdIs400 ==
    (out.kind = "get" /\ ~isValid(out.id)) => out.status = 400

\* C5: a store-backed handler calls connect() once if it found the flag
\* false and never if it found it true; if the flag is still false after
\* the attempt it answers 500 with success:false and issues no store
\* operation.
C5_SingleReconnect ==
    /\ \A r \in Reqs :
          /\ req[r].connectCalls <= 1
          /\ req[r].pc # "idle" =>
                req[r].connectCalls = (IF req[r].found THEN 0 ELSE 1)
          /\ req[r].pc = "op" =>
                (req[r].storeOps = 1 /\ (req[r].found \/ req[r].recheck))
          /\ req[r].pc = "awaitConnect" => req[r].storeOps = 0
    /\ out.kind \in StoreBacked =>
          /\ out.connectCalls = (IF out.found THEN 0 ELSE 1)
          /\ out.storeOps <= 1
          /\ (~out.found /\ ~out.recheck) =>
                (out.status = 500 /\ out.body.success = FALSE
                    /\ out.storeOps = 0)

C5_Witness ==
    /\ out.kind \in StoreBacked
    /\ ~out.found /\ ~out.recheck
    /\ out.connectCalls = 1 /\ out.status = 500

\* C6: once a POST was answered 201 with id X, a GET of X whose findOne
\* succeeds is answered 200 with the contactInfo and qrCodeImage submitted.
C6_RoundTrip ==
    \A a \in acked :
        (out.kind = "get" /\ out.opResult = "ok"
            /\ ObjectId(out.id) = ObjectId(a.id))
        => (out.status = 200
              /\ out.body.contactInfo = a.contactInfo
              /\ out.body.qrCodeImage = a.qrCodeImage)

C6_Witness ==
    /\ Len(qrcodes) > 1
    /\ out.kind = "get" /\ out.status = 200
    /\ \E a \in acked : out.id # a.id /\ ObjectId(out.id) = ObjectId(a.id)

\* C7: a 200 listing has exactly one element per stored record, and each
\* element is the id, contactInfo and createdAt of its record and nothing
\* else: no qrCodeImage.
C7_ListingSanitized ==
    (out.kind = "list" /\ out.status = 200) =>
        /\ Len(out.body) = Len(qrcodes)
        /\ \E p \in Permutations(1..Len(qrcodes)) :
              \A j \in 1..Len(qrcodes) :
                  out.body[j] = [_id |-> toHexString(qrcodes[p[j]]._id),
                                 contactInfo |-> qrcodes[p[j]].contactInfo,
                                 createdAt |-> qrcodes[p[j]].createdAt]
        /\ \A j \in 1..Len(out.body) :
              DOMAIN out.body[j] = {"_id", "contactInfo", "createdAt"}

C7_Witness ==
    /\ out.kind = "list" /\ out.status = 200
    /\ Len(out.body) > 1
    /\ out.body[1]._id = toHexString(qrcodes[2]._id)

DistinctIds ==
    \A i, j \in 1..Len(qrcodes) : i # j => qrcodes[i]._id # qrcodes[j]._id

GetReturnsStored ==
    (out.kind = "get" /\ out.status = 200) =>
        \E i \in 1..Len(qrcodes) :
            /\ qrcodes[i]._id = ObjectId(out.id)
            /\ out.body = toJSON(qrcodes[i])

AppendOnly ==
    /\ qrcodes' # qrcodes => (out'.kind = "post" /\ out'.status = 201)
    /\ (out'.kind = "post" /\ out'.status = 201) =>
          /\ Len(qrcodes') = Len(qrcodes) + 1
          /\ SubSeq(qrcodes', 1, Len(qrcodes)) = qrcodes
    /\ ~(out'.kind = "post" /\ out'.status = 201) => qrcodes' = qrcodes

\* C8: the collection is append-only: ids are distinct, a step changes the
\* collection only by a POST answered 201 adding one record after the
\* existing ones, which stay as they are, and a 200 GET returns the stored
\* record of that id.
C8_AppendOnly == []DistinctIds /\ []GetReturnsStored /\ [][AppendOnly]_vars

C8_Witness ==
    /\ Len(qrcodes) > 1
    /\ out.kind = "get" /\ out.status = 200
    /\ ObjectId(out.id) = qrcodes[1]._id

\* C9: a GET of a well-formed id whose findOne succeeds is answered 404 with
\* success:false when no record has that id, and 200 when one has.
C9_NotFoundIs404 ==
    (out.kind = "get" /\ out.opResult = "ok") =>
        IF HasRecord(ObjectId(out.id))
        THEN out.status = 200
        ELSE out.status = 404 /\ out.body.success = FALSE

C9_Witness ==
    /\ out.kind = "get" /\ out.opResult = "ok" /\ out.status = 404
    /\ qrcodes # <<>>

\* C10: the flag isConnected is true only if some connect attempt has
\* finished both client.connect() and the ping successfully.
C10_FlagImpliesValidated == isConnected => validated

====
